---- MODULE Spec2Model ----
(***************************************************************************)
(* Recipe Finder & Saver frontend: the HTTP client (api/client.js) and the *)
(* view orchestration of App (App.js), as state machines.                  *)
(*                                                                         *)
(* JavaScript values are tagged strings: "n:1" is the number 1, "s:1" the  *)
(* string '1', "s:" the empty string, "null" and "undefined" themselves.   *)
(* JavaScript strings that the code inspects character by character (the   *)
(* search query) are sequences of one-character strings.                   *)
(***************************************************************************)
EXTENDS Integers, Sequences, FiniteSets, TLC

VARIABLES
  query,            \* App.js:172 useState('')
  debouncedQuery,   \* App.js:34  useDebouncedValue's state
  debounceTimers,   \* pending window.setTimeout timers of useDebouncedValue
  searchOps,        \* search effects whose apiSearchRecipes call is in flight
  searchResults,    \* App.js:174
  searchStatus,     \* App.js:175
  favorites,        \* backend: the recipe ids recorded as favorites
  health,           \* App.js:189
  healthOp,         \* the init effect's apiGetHealth call in flight
  saved,            \* App.js:178
  savedStatus,      \* App.js:179
  saveBusyIds,      \* App.js:186
  reloadOps,        \* reloadSaved() calls whose apiGetSavedRecipes is in flight
  toggleOps,        \* toggleSave() calls that have not finished
  selected,         \* App.js:182: <<>> is null, <<r>> the recipe in the modal
  selectedStatus,   \* App.js:183
  detailOps,        \* openRecipe() calls whose apiGetRecipeById is in flight
  api,              \* an API function called on its own: where it is in its chain
  req,              \* the request() that call has in flight
  reqLog,           \* history: the requests the call made and how each ended
  stored,           \* localStorage['rf_access_token'], "" when there is no item
  storage,          \* "ok", or "full": localStorage.setItem throws
  rawIn,            \* normalizeRecipe called on its own: its argument
  normOut,          \* ... and its result, <<>> before it has returned
  stable,           \* history: ticks since the query last changed (capped)
  resultsCurrent,   \* history: searchResults was last written by the newest effect
  statusCurrent,    \* history: searchStatus was last written by the newest effect
  skipped,          \* history: the value last replaced had not stayed for the full delay
  last              \* history: the step taken last

searchVars == <<query, debouncedQuery, debounceTimers, searchOps, searchResults, searchStatus>>
savedVars == <<favorites, health, healthOp, saved, savedStatus, saveBusyIds, reloadOps, toggleOps>>
detailVars == <<selected, selectedStatus, detailOps>>
apiVars == <<api, req, reqLog, stored, storage>>
pureVars == <<rawIn, normOut>>
historyVars == <<stable, resultsCurrent, statusCurrent, skipped, last>>
vars == <<searchVars, savedVars, detailVars, apiVars, pureVars, historyVars>>

\* What the steps of one region leave alone
outsideSearch == <<savedVars, detailVars, apiVars, pureVars>>
outsideSaved ==
  <<searchVars, detailVars, apiVars, pureVars, stable, resultsCurrent, statusCurrent, skipped>>
outsideDetail ==
  <<searchVars, savedVars, apiVars, pureVars, stable, resultsCurrent, statusCurrent, skipped>>
outsideApi == <<searchVars, savedVars, detailVars, pureVars, historyVars>>
outsidePure == <<searchVars, savedVars, detailVars, apiVars, historyVars>>

-----------------------------------------------------------------------------
(* Bounds *)

MaxQueryLen == 2
DebounceTicks == 2
MaxSearchOps == 2
MaxInFlight == 2

-----------------------------------------------------------------------------
(* JavaScript values and strings *)

Null == "null"
Undefined == "undefined"

\* x == null / x ?? y
IsNullish(x) == x \in {Null, Undefined}

\* Mutant of Coalesce: x || y
CoalesceOr(x, y) == IF x \in {Null, Undefined, "n:0", "s:"} THEN y ELSE x

Coalesce(x, y) == IF IsNullish(x) THEN y ELSE x

Chars == {"a", " "}

Strings(n) == UNION {[1..k -> Chars] : k \in 0..n}

Queries == Strings(MaxQueryLen)

RECURSIVE TrimStart(_)
TrimStart(s) == IF s # <<>> /\ Head(s) = " " THEN TrimStart(Tail(s)) ELSE s

RECURSIVE TrimEnd(_)
TrimEnd(s) ==
  IF s # <<>> /\ s[Len(s)] = " " THEN TrimEnd(SubSeq(s, 1, Len(s) - 1)) ELSE s

Trim(s) == TrimEnd(TrimStart(s))

EndsWithSpace(s) == s # <<>> /\ s[Len(s)] = " "

-----------------------------------------------------------------------------
(* Errors *)

TimeoutMsg == "Request timed out. Please try again."

Error(msg) == [name |-> "Error", message |-> msg]

toErrorMessage(err) == IF err.message = "" THEN "Unknown error" ELSE err.message

-----------------------------------------------------------------------------
(* Recipes *)

\* A raw backend recipe object: the four id fields normalizeRecipe reads.
Raw(id, recipe_id, oid, uuid) ==
  [id |-> id, recipe_id |-> recipe_id, _id |-> oid, uuid |-> uuid]

\* raw?.f on a value that is undefined: every field reads undefined.
NoRaw == Raw(Undefined, Undefined, Undefined, Undefined)

Field(r, f) == IF f \in DOMAIN r THEN r[f] ELSE Undefined

normalizeRecipe(raw) ==
  [raw |-> raw,
   id |-> Coalesce(Field(raw, "id"),
          Coalesce(Field(raw, "recipe_id"),
          Coalesce(Field(raw, "_id"), Field(raw, "uuid"))))]

\* The values an id field of a backend object may hold (Undefined: absent)
IdValues == {Undefined, Null, "n:0", "s:", "n:1"}

RawInputs == {Raw(a, b, c, d) : a, b, c, d \in IdValues}

\* normalizeRecipe(rawIn) returns.
Normalize ==
  /\ normOut = <<>>
  /\ normOut' = <<normalizeRecipe(rawIn)>>
  /\ UNCHANGED rawIn
  /\ UNCHANGED outsidePure

\* The next backend object arrives.
NextRaw(r) ==
  /\ normOut # <<>>
  /\ rawIn' = r
  /\ normOut' = <<>>
  /\ UNCHANGED outsidePure

MapSeq(Op(_), s) == [i \in 1..Len(s) |-> Op(s[i])]

\* Mutant of FilterHasId: nothing is discarded.
FilterKeepsAll(s) == s

RECURSIVE FilterHasId(_)
FilterHasId(s) ==
  IF s = <<>> THEN <<>>
  ELSE IF IsNullish(Head(s).id) THEN FilterHasId(Tail(s))
  ELSE <<Head(s)>> \o FilterHasId(Tail(s))

\* list.map(normalizeRecipe).filter((r) => r.id != null)
NormalizeList(list) == FilterHasId(MapSeq(normalizeRecipe, list))

-----------------------------------------------------------------------------------------------------------------------------------------------------
(* Response payloads.  A payload is a bare array (isArray, arr) or an       *)
(* object; has is the set of its list-valued fields that are present.       *)

Payload(isArray, arr, has, resultsF, recipesF, savedF, itemsF) ==
  [isArray |-> isArray, arr |-> arr, has |-> has, results |-> resultsF,
   recipes |-> recipesF, saved |-> savedF, items |-> itemsF]

ArrayPayload(list) == Payload(TRUE, list, {}, <<>>, <<>>, <<>>, <<>>)

ResultsPayload(list) == Payload(FALSE, <<>>, {"results"}, list, <<>>, <<>>, <<>>)

RecipesPayload(list) == Payload(FALSE, <<>>, {"recipes"}, <<>>, list, <<>>, <<>>)

SavedPayload(list) == Payload(FALSE, <<>>, {"saved"}, <<>>, <<>>, list, <<>>)

ItemsPayload(items) == Payload(FALSE, <<>>, {"items"}, <<>>, <<>>, <<>>, items)

EmptyPayload == Payload(FALSE, <<>>, {}, <<>>, <<>>, <<>>, <<>>)

\* An entry of data.items: { recipe, created_at }, or null.
Item(raw) == [isNull |-> FALSE, recipe |-> raw]

NullItem == [isNull |-> TRUE, recipe |-> NoRaw]

\* Array.isArray(data) ? data : data?.results ?? data?.recipes ?? []
SearchList(data) ==
  IF data.isArray THEN data.arr
  ELSE IF "results" \in data.has THEN data.results
  ELSE IF "recipes" \in data.has THEN data.recipes
  ELSE <<>>

\* Mutant of SavedList: data?.saved is not looked at.
SavedListNoSaved(data) == SearchList(data)

\* Array.isArray(data) ? data : data?.results ?? data?.recipes ?? data?.saved ?? []
SavedList(data) ==
  IF data.isArray THEN data.arr
  ELSE IF "results" \in data.has THEN data.results
  ELSE IF "recipes" \in data.has THEN data.recipes
  ELSE IF "saved" \in data.has THEN data.saved
  ELSE <<>>

-----------------------------------------------------------------------------
(* Outcomes of a request() or of an API function: resolved with data, or    *)
(* rejected with an error.                                                   *)

NoError == [name |-> "", message |-> ""]

Resolved(data) == [ok |-> TRUE, data |-> data, err |-> NoError]

Rejected(err) == [ok |-> FALSE, data |-> EmptyPayload, err |-> err]

-----------------------------------------------------------------------------
(* The fallback chains of api/client.js.  A call is at its preferred or at  *)
(* its alternate request; a step takes the outcome of the request in flight *)
(* and either finishes the call (done, out) or issues the next request.     *)

NewCall(fn) == [fn |-> fn, stage |-> "pref", e1 |-> NoError]

Finish(call, out) == [done |-> TRUE, call |-> call, out |-> out]

\* catch (e) { ...alternate request... }: only apiSaveRecipe uses e again.
Fallback(call, err) ==
  [done |-> FALSE,
   call |-> [call EXCEPT !.stage = "alt", !.e1 = IF call.fn = "save" THEN err ELSE NoError],
   out |-> Rejected(err)]

\* try { return await request(pref) } catch (e) { return request(alt) }
apiSearchRecipes(call, out) ==
  IF call.stage = "pref" /\ ~out.ok THEN Fallback(call, out.err) ELSE Finish(call, out)

ItemsError == [name |-> "TypeError", message |-> "Cannot read properties of null (reading 'recipe')"]

HasNullItem(items) == \E i \in 1..Len(items) : items[i].isNull

ItemRecipe(it) == it.recipe

\* The unwrapping of { items: [{ recipe }] } sits inside the try block: an
\* exception of it.recipe on a null entry falls through to the alternate.
apiGetSavedRecipes(call, out) ==
  IF call.stage = "alt" THEN Finish(call, out)
  ELSE IF ~out.ok THEN Fallback(call, out.err)
  ELSE IF ~out.data.isArray /\ "items" \in out.data.has
       THEN IF HasNullItem(out.data.items)
            THEN Fallback(call, ItemsError)
            ELSE Finish(call, Resolved(ArrayPayload(MapSeq(ItemRecipe, out.data.items))))
       ELSE Finish(call, out)

\* Mutant of apiSaveRecipe: the alternate's error is thrown.
apiSaveRecipeThrowsE2(call, out) ==
  IF call.stage = "pref" /\ ~out.ok THEN Fallback(call, out.err) ELSE Finish(call, out)

\* try { return await request(pref) }
\* catch (e) { try { return await request(alt) } catch (e2) { throw e } }
apiSaveRecipe(call, out) ==
  IF out.ok THEN Finish(call, out)
  ELSE IF call.stage = "pref" THEN Fallback(call, out.err)
  ELSE Finish(call, Rejected(call.e1))

apiUnsaveRecipe(call, out) ==
  IF call.stage = "pref" /\ ~out.ok THEN Fallback(call, out.err) ELSE Finish(call, out)

\* apiGetHealth, apiGetRecipeById, apiGetMe, and the request of apiRegister
\* and apiLogin: one request, no fallback.
apiSingle(call, out) == Finish(call, out)

LoggedOut == [message |-> "Logged out"]

\* Mutant of apiLogout: the failure of the request is thrown on.
apiLogoutRethrows(call, out) == Finish(call, out)

\* try { return await request('POST', '/auth/logout') }
\* catch (e) { return { message: 'Logged out' } }
apiLogout(call, out) == Finish(call, IF out.ok THEN out ELSE Resolved(LoggedOut))

ApiStep(call, out) ==
  CASE call.fn = "search" -> apiSearchRecipes(call, out)
    [] call.fn = "logout" -> apiLogout(call, out)
    [] call.fn = "getSaved" -> apiGetSavedRecipes(call, out)
    [] call.fn = "save" -> apiSaveRecipe(call, out)
    [] call.fn = "unsave" -> apiUnsaveRecipe(call, out)
    [] OTHER -> apiSingle(call, out)

-----------------------------------------------------------------------------
(* request(): api/client.js:76-112 *)

DEFAULT_TIMEOUT_MS == 20000

\* was (history): the stored token when the function was called; arg: the
\* recipe apiSaveRecipe was called with
IdleApi ==
  [phase |-> "idle", call |-> NewCall("none"), out |-> Rejected(NoError), was |-> "",
   arg |-> <<>>]

NoResponse == [ok |-> FALSE, status |-> "", statusText |-> ""]

NoRequest ==
  [phase |-> "none", method |-> "", path |-> "", auth |-> "", timer |-> "none",
   timeoutMs |-> 0, res |-> NoResponse]

\* The request of each chain position: method and path
Endpoint(call) ==
  CASE call.fn = "health" -> [method |-> "GET", path |-> "/"]
    [] call.fn = "getById" -> [method |-> "GET", path |-> "/recipes/{id}"]
    [] call.fn = "register" -> [method |-> "POST", path |-> "/auth/register"]
    [] call.fn = "login" -> [method |-> "POST", path |-> "/auth/login"]
    [] call.fn = "getMe" -> [method |-> "GET", path |-> "/auth/me"]
    [] call.fn = "logout" -> [method |-> "POST", path |-> "/auth/logout"]
    [] call.fn = "search" /\ call.stage = "pref" ->
         [method |-> "GET", path |-> "/recipes/search?q="]
    [] call.fn = "search" /\ call.stage = "alt" -> [method |-> "GET", path |-> "/recipes?q="]
    [] call.fn = "getSaved" /\ call.stage = "pref" -> [method |-> "GET", path |-> "/favorites"]
    [] call.fn = "getSaved" /\ call.stage = "alt" -> [method |-> "GET", path |-> "/saved"]
    [] call.fn = "save" /\ call.stage = "pref" -> [method |-> "POST", path |-> "/favorites"]
    [] call.fn = "save" /\ call.stage = "alt" -> [method |-> "POST", path |-> "/saved"]
    [] call.fn = "unsave" /\ call.stage = "pref" ->
         [method |-> "DELETE", path |-> "/favorites/{id}"]
    [] call.fn = "unsave" /\ call.stage = "alt" -> [method |-> "DELETE", path |-> "/saved/{id}"]

\* Mutant of AuthHeader: the header is sent whatever the token.
AuthHeaderAlways(token) == "Bearer " \o token

\* ...(token ? { Authorization: `Bearer ${token}` } : {}); "" is no header.
\* No caller passes headers of its own.
AuthHeader(token) == IF token # "" THEN "Bearer " \o token ELSE ""

\* makeAbortSignal(timeoutMs ?? DEFAULT_TIMEOUT_MS), getAccessToken(), then
\* fetch(): the timer is armed and the response headers are awaited.  No
\* caller passes timeoutMs.
StartRequest(call, token) ==
  [phase |-> "headers", method |-> Endpoint(call).method, path |-> Endpoint(call).path,
   auth |-> AuthHeader(token), timer |-> "armed", timeoutMs |-> DEFAULT_TIMEOUT_MS,
   res |-> NoResponse]

AbortError == [name |-> "AbortError", message |-> "The user aborted a request."]

NetworkError == [name |-> "TypeError", message |-> "Failed to fetch"]

SyntaxError == [name |-> "SyntaxError", message |-> "Unexpected token < in JSON"]

\* Mutant of NormalizeError: the AbortError is thrown on as it is.
NormalizeErrorNone(e) == e

\* catch (e) { if (e?.name === 'AbortError') throw new Error('Request timed
\* out. Please try again.'); throw e }
NormalizeError(e) == IF e.name = "AbortError" THEN Error(TimeoutMsg) ELSE e

\* The body of a non-2xx response: a string, or an object with detail,
\* message or neither (json is its JSON.stringify).
ErrorBody(isString, text, detail, message, json) ==
  [isString |-> isString, text |-> text, detail |-> detail, message |-> message,
   json |-> json]

\* typeof payload === 'string' ? payload
\*   : payload?.detail || payload?.message || JSON.stringify(payload)
ServerMessage(body) ==
  IF body.isString THEN body.text
  ELSE IF body.detail # "" THEN body.detail
  ELSE IF body.message # "" THEN body.message
  ELSE body.json

\* new Error(`HTTP ${res.status} ${res.statusText}: ${serverMessage}`)
HttpError(res, body) ==
  Error("HTTP " \o res.status \o " " \o res.statusText \o ": " \o ServerMessage(body))

-----------------------------------------------------------------------------
(* What the backend may answer *)

RecipeA == Raw("n:1", Undefined, Undefined, Undefined)

RecipeB == Raw(Null, "s:2", Undefined, Undefined)

RecipeNoId == Raw(Undefined, Null, Undefined, Undefined)

HttpErrorMsg == "HTTP 500 Internal Server Error: boom"

AppErrors == {Error(TimeoutMsg), Error(HttpErrorMsg)}

SearchPayloads ==
  {ArrayPayload(<<RecipeA, RecipeNoId>>), ResultsPayload(<<RecipeB>>),
   RecipesPayload(<<RecipeA, RecipeNoId>>), ResultsPayload(<<>>),
   ItemsPayload(<<Item(RecipeB)>>)}

SearchOutcomes == {Resolved(p) : p \in SearchPayloads} \cup {Rejected(e) : e \in AppErrors}

-----------------------------------------------------------------------------
(* History records *)

Last(act, newest, wrote, issued, forQ) ==
  [act |-> act, newest |-> newest, wrote |-> wrote, issued |-> issued, forQ |-> forQ]

RemoveAt(s, i) == SubSeq(s, 1, i - 1) \o SubSeq(s, i + 1, Len(s))

-----------------------------------------------------------------------------
(* useDebouncedValue(query, 350): App.js:33-42, 173 *)

DEBOUNCE_MS == 350

\* window.setTimeout(() => setDebounced(value), delayMs); cur marks the timer
\* the newest effect run holds in t.
Arm(timers, value) == timers \cup {[value |-> value, left |-> DebounceTicks, cur |-> TRUE]}

\* Mutant of ClearTimeout: the cleanup leaves the old timer pending.
ClearTimeoutKeeps(timers) == {[t EXCEPT !.cur = FALSE] : t \in timers}

\* The effect's cleanup, run before every re-run: window.clearTimeout(t)
ClearTimeout(timers) == {t \in timers : ~t.cur}

\* setQuery(v) with a new value re-renders; the [value, delayMs] effect is
\* cleaned up and run again.
QueryChanges(v) ==
  /\ query' = v
  /\ debounceTimers' = Arm(ClearTimeout(debounceTimers), v)
  /\ stable' = 0
  /\ skipped' = (stable < DebounceTicks)
  /\ last' = Last("SetQuery", FALSE, FALSE, 0, <<>>)
  /\ UNCHANGED <<debouncedQuery, searchOps, searchResults, searchStatus,
                 resultsCurrent, statusCurrent>>
  /\ UNCHANGED outsideSearch

\* onChange={(e) => setQuery(e.target.value)}
SetQuery(v) ==
  /\ v # query
  /\ QueryChanges(v)

\* The Search button: setQuery((v) => (v.endsWith(' ') ? v.trimEnd() : `${v} `)),
\* disabled={!query.trim()}
SearchButton ==
  LET v == IF EndsWithSpace(query) THEN TrimEnd(query) ELSE Append(query, " ")
  IN /\ Trim(query) # <<>>
     /\ Len(v) <= MaxQueryLen
     /\ QueryChanges(v)

\* Time passes: one tick of every pending timer; a timer that is due fires first.
Tick ==
  /\ debounceTimers # {}
  /\ \A t \in debounceTimers : t.left > 0
  /\ debounceTimers' = {[t EXCEPT !.left = t.left - 1] : t \in debounceTimers}
  /\ stable' = IF stable < DebounceTicks THEN stable + 1 ELSE stable
  /\ last' = Last("Tick", FALSE, FALSE, 0, <<>>)
  /\ UNCHANGED <<query, debouncedQuery, searchOps, searchResults, searchStatus,
                 resultsCurrent, statusCurrent, skipped>>
  /\ UNCHANGED outsideSearch

-----------------------------------------------------------------------------
(* The search effect: App.js:226-258 *)

\* Mutant of SearchQ: the query is not trimmed.
SearchQNoTrim(d) == d

\* const q = debouncedQuery.trim()
SearchQ(d) == Trim(d)

\* Mutant of Teardown: the cleanup does not set the flag.
TeardownNoFlag(ops) == ops

\* The effect's cleanup: cancelled = true
Teardown(ops) == [i \in 1..Len(ops) |-> [ops[i] EXCEPT !.cancelled = TRUE]]

\* history: no effect in flight is the newest one any more
Superseded(ops) == [i \in 1..Len(ops) |-> [ops[i] EXCEPT !.newest = FALSE]]

IdleStatus == [loading |-> FALSE, error |-> "", lastUpdated |-> ""]

LoadingStatus == [loading |-> TRUE, error |-> "", lastUpdated |-> ""]

\* The effect re-run for a new debouncedQuery d: cleanup of the previous run,
\* then doSearch() up to its first await.
SearchEffect(d) ==
  LET ops == Superseded(Teardown(searchOps))
      q == SearchQ(d)
  IN IF q = <<>>
     THEN /\ searchResults' = <<>>
          /\ searchStatus' = [searchStatus EXCEPT !.loading = FALSE, !.error = "",
                                                  !.lastUpdated = ""]
          /\ searchOps' = ops
          /\ resultsCurrent' = TRUE
          /\ statusCurrent' = TRUE
          /\ last' = Last("SearchEffect", TRUE, TRUE, 0, q)
     ELSE /\ Len(ops) < MaxSearchOps
          /\ searchStatus' = LoadingStatus
          /\ searchOps' = Append(ops, [call |-> NewCall("search"), q |-> q,
                                       cancelled |-> FALSE, newest |-> TRUE])
          /\ UNCHANGED searchResults
          /\ resultsCurrent' = FALSE
          /\ statusCurrent' = TRUE
          /\ last' = Last("SearchEffect", TRUE, TRUE, 1, q)

\* A debounce timer fires: setDebounced(value).  The same value re-renders
\* nothing; a new one re-runs the search effect.
DebounceFire(t) ==
  /\ t \in debounceTimers
  /\ t.left = 0
  /\ debounceTimers' = debounceTimers \ {t}
  /\ IF t.value = debouncedQuery
     THEN /\ last' = Last("DebounceSame", FALSE, FALSE, 0, <<>>)
          /\ UNCHANGED <<debouncedQuery, searchOps, searchResults, searchStatus,
                         resultsCurrent, statusCurrent>>
     ELSE /\ debouncedQuery' = t.value
          /\ SearchEffect(t.value)
  /\ UNCHANGED <<query, stable, skipped>>
  /\ UNCHANGED outsideSearch

\* Mutant of SearchFailed: the catch leaves the loading flag set.
SearchFailedStillLoading(msg) == [loading |-> TRUE, error |-> msg, lastUpdated |-> ""]

\* catch: setSearchStatus({ loading: false, error: toErrorMessage(e), lastUpdated: '' })
SearchFailed(msg) == [loading |-> FALSE, error |-> msg, lastUpdated |-> ""]

\* The request in flight of search effect i settles with out: the chain
\* issues its alternate request, or apiSearchRecipes settles and doSearch
\* resumes after its await.
SearchSettle(i, out) ==
  LET op == searchOps[i]
      step == ApiStep(op.call, out)
  IN /\ IF ~step.done
        THEN /\ searchOps' = [searchOps EXCEPT ![i].call = step.call]
             /\ last' = Last("SearchFallback", op.newest, FALSE, 1, op.q)
             /\ UNCHANGED <<searchResults, searchStatus, resultsCurrent, statusCurrent>>
        ELSE /\ searchOps' = RemoveAt(searchOps, i)
             /\ IF op.cancelled
                THEN UNCHANGED <<searchResults, searchStatus, resultsCurrent, statusCurrent>>
                ELSE /\ IF step.out.ok
                        THEN /\ searchResults' = NormalizeList(SearchList(step.out.data))
                             /\ searchStatus' = [loading |-> FALSE, error |-> "",
                                                 lastUpdated |-> "now"]
                        ELSE /\ searchResults' = <<>>
                             /\ searchStatus' = SearchFailed(toErrorMessage(step.out.err))
                     /\ resultsCurrent' = op.newest
                     /\ statusCurrent' = op.newest
             /\ last' = Last("SearchSettle", op.newest,
                             searchResults' # searchResults \/ searchStatus' # searchStatus,
                             0, op.q)
     /\ UNCHANGED <<query, debouncedQuery, debounceTimers, stable, skipped>>
     /\ UNCHANGED outsideSearch

-----------------------------------------------------------------------------
(* Requests in flight and the backend's favorites *)

\* String(v) of a JavaScript value
ToStr(v) ==
  CASE v = "n:0" -> "s:0"
    [] v = "n:1" -> "s:1"
    [] v = "n:2" -> "s:2"
    [] v = Null -> "s:null"
    [] v = Undefined -> "s:undefined"
    [] OTHER -> v

\* !v
Falsy(v) == v \in {"n:0", "s:", Null, Undefined}

\* A call with its request in flight: served once the backend has answered
\* it (out), the answer still on its way.
NewOp(fn) == [call |-> NewCall(fn), served |-> FALSE, out |-> Rejected(NoError)]

\* What the request in flight can settle with: the backend's answer, or the
\* abort of request()'s timer.
Arrivals(op) == (IF op.served THEN {op.out} ELSE {}) \cup {Rejected(Error(TimeoutMsg))}

\* The chain's next request is in flight, not yet answered.
NextRequest(op, call) == [op EXCEPT !.call = call, !.served = FALSE, !.out = Rejected(NoError)]

Catalogue == <<RecipeA, RecipeB>>

\* The favorites recorded before this page session: RecipeB
InitialFavorites == {"s:2"}

IsFavorite(raw) == ToStr(normalizeRecipe(raw).id) \in favorites

\* The backend's list of favorites
Snapshot == SelectSeq(Catalogue, IsFavorite)

\* What a saved-list response lists: the favorites, and a record that carries
\* no id where normalizeRecipe looks for one.
Listed == Snapshot \o <<RecipeNoId>>

\* GET /favorites answers { items: [{ recipe, created_at }], total }; the
\* legacy GET /saved answers { saved: [...] } or an object with none of the
\* fields the client reads.
SavedAnswers(stage) ==
  {Rejected(Error(HttpErrorMsg))} \cup
  (IF stage = "pref"
   THEN {Resolved(ItemsPayload(MapSeq(Item, Listed)))}
   ELSE {Resolved(SavedPayload(Listed)), Resolved(EmptyPayload)})

\* The response lists the favorites where reloadSaved looks for them.
Readable(data) == data.isArray \/ data.has \cap {"results", "recipes", "saved"} # {}

-----------------------------------------------------------------------------
(* reloadSaved: App.js:260-272 *)

LastSaved(act, id, unsave, ok, readable) ==
  [act |-> act, id |-> id, unsave |-> unsave, ok |-> ok, readable |-> readable, msg |-> ""]

\* A step of the backend or of a fallback chain
LastStep(act) == LastSaved(act, "", FALSE, FALSE, FALSE)

Failed(l, err) == [l EXCEPT !.msg = err.message]

\* Mutant of ReloadStarted: reloadSaved() is not called.
ReloadNotStarted(ops, owner) == ops

\* reloadSaved() up to its await, called by owner.  history: overtaken, a
\* reloadSaved() called later has settled before this one.
ReloadStarted(ops, owner) ==
  Append(ops, [owner |-> owner, overtaken |-> FALSE] @@ NewOp("getSaved"))

\* history: reload i has settled, the reloads called before it still awaiting
Overtake(ops, i) ==
  [j \in 1..Len(ops) |-> IF j < i THEN [ops[j] EXCEPT !.overtaken = TRUE] ELSE ops[j]]

savedIds == {normalizeRecipe(saved[i]).id : i \in 1..Len(saved)}

\* The API calls of the saved region in flight: every reloadSaved() and every
\* toggleSave() still at its save or unsave.
InFlight ==
  Len(reloadOps) + Cardinality({i \in 1..Len(toggleOps) : toggleOps[i].phase = "mutate"})

\* The "Reload saved" button: onClick={reloadSaved}
ManualReload ==
  /\ InFlight < MaxInFlight
  /\ savedStatus' = LoadingStatus
  /\ reloadOps' = ReloadStarted(reloadOps, "manual")
  /\ last' = LastStep("ManualReload")
  /\ UNCHANGED <<favorites, health, healthOp, saved, saveBusyIds, toggleOps>>
  /\ UNCHANGED outsideSaved

\* The backend answers the saved-list request in flight of reload i.
ReloadServe(i, ans) ==
  /\ ~reloadOps[i].served
  /\ ans \in SavedAnswers(reloadOps[i].call.stage)
  /\ reloadOps' = [reloadOps EXCEPT ![i].served = TRUE, ![i].out = ans]
  /\ last' = LastStep("ReloadServe")
  /\ UNCHANGED <<favorites, health, healthOp, saved, savedStatus, saveBusyIds, toggleOps>>
  /\ UNCHANGED outsideSaved

\* finally { setSaveBusyIds((prev) => { next.delete(id) }) } of the first
\* toggleSave of id awaiting its reloadSaved()
FirstAwaiting(ops, id) ==
  CHOOSE i \in 1..Len(ops) :
    /\ ops[i].id = id /\ ops[i].phase = "reload"
    /\ \A j \in 1..(i - 1) : ~(ops[j].id = id /\ ops[j].phase = "reload")

\* Mutant of RemoveBusy: finally is skipped when the reload has failed.
RemoveBusyUnlessFailed(ids, id, ok) == IF ok THEN ids \ {id} ELSE ids

\* finally { setSaveBusyIds((prev) => { const next = new Set(prev);
\* next.delete(id); return next }) }, ok being the outcome of what was awaited
RemoveBusy(ids, id, ok) == ids \ {id}

IsToggleOwner(owner) == owner \notin {"init", "manual"}

\* The request in flight of reload i settles: the chain issues its alternate
\* request, or apiGetSavedRecipes settles and reloadSaved resumes after its
\* await; a toggleSave awaiting this reloadSaved() then runs its finally.
ReloadSettle(i, out) ==
  LET op == reloadOps[i]
      step == ApiStep(op.call, out)
  IN /\ out \in Arrivals(op)
     /\ IF ~step.done
        THEN /\ reloadOps' = [reloadOps EXCEPT ![i] = NextRequest(op, step.call)]
             /\ last' = LastStep("ReloadFallback")
             /\ UNCHANGED <<saved, savedStatus, saveBusyIds, toggleOps>>
        ELSE /\ reloadOps' = RemoveAt(Overtake(reloadOps, i), i)
             /\ IF step.out.ok
                THEN /\ saved' = NormalizeList(SavedList(step.out.data))
                     /\ savedStatus' = [loading |-> FALSE, error |-> "",
                                        lastUpdated |-> "now"]
                ELSE /\ saved' = <<>>
                     /\ savedStatus' = [loading |-> FALSE,
                                        error |-> toErrorMessage(step.out.err),
                                        lastUpdated |-> ""]
             /\ IF IsToggleOwner(op.owner)
                THEN /\ saveBusyIds' = RemoveBusy(saveBusyIds, op.owner, step.out.ok)
                     /\ toggleOps' = RemoveAt(toggleOps, FirstAwaiting(toggleOps, op.owner))
                     /\ last' = Failed(LastSaved("ToggleDone", op.owner,
                                    toggleOps[FirstAwaiting(toggleOps, op.owner)].unsave,
                                    step.out.ok, step.out.ok /\ Readable(step.out.data)),
                                    step.out.err)
                ELSE /\ UNCHANGED <<saveBusyIds, toggleOps>>
                     /\ last' = Failed(LastSaved("ReloadSettle", op.owner, FALSE, step.out.ok,
                                    step.out.ok /\ Readable(step.out.data)), step.out.err)
     /\ UNCHANGED <<favorites, health, healthOp>>
     /\ UNCHANGED outsideSaved

-----------------------------------------------------------------------------
(* toggleSave: App.js:302-342 *)

\* The recipes whose cards carry a Save/Unsave button: the search results, and
\* the saved list through normalizeRecipe(r).
Cards ==
  {searchResults[i] : i \in 1..Len(searchResults)} \cup
  {normalizeRecipe(saved[i]) : i \in 1..Len(saved)}

\* ... and the recipe in the modal: onClick={() => toggleSave(selected)}
Toggleable == Cards \cup {selected[i] : i \in 1..Len(selected)}

\* Mutant of SurfaceError: the time of the last reload is cleared as well.
SurfaceErrorClearsTime(s, msg) == [s EXCEPT !.error = msg, !.lastUpdated = ""]

\* Mutant of SurfaceError: the status is replaced, not updated.
SurfaceErrorReplaces(s, msg) == [loading |-> FALSE, error |-> msg, lastUpdated |-> ""]

\* setSavedStatus((s) => ({ ...s, error: toErrorMessage(e) }))
SurfaceError(s, msg) == [s EXCEPT !.error = msg]

\* Mutant of CanToggle: the button is not disabled while busy.
CanToggleAlways(id) == TRUE

\* disabled={busy}, busy={saveBusyIds.has(r.id)}
CanToggle(id) == id \notin saveBusyIds

\* const currentlySaved = savedIds.has(id)
CurrentlySaved(id) == id \in savedIds

\* The object toggleSave hands to apiSaveRecipe: { id: recipe.id, ..., raw: recipe.raw }
SaveArg(recipe) == [id |-> recipe.id, raw |-> recipe.raw]

\* const recipeId = recipe?.id ?? recipe?.recipe_id ?? recipe?._id ?? recipe?.uuid
SaveRecipeId(arg) ==
  Coalesce(Field(arg, "id"),
  Coalesce(Field(arg, "recipe_id"),
  Coalesce(Field(arg, "_id"), Field(arg, "uuid"))))

MissingIdMsg == "Cannot save recipe: missing recipe id."

\* if (!recipeId) throw new Error('Cannot save recipe: missing recipe id.')
MissingId(recipeId) == Falsy(recipeId)

\* The key POST /favorites { recipe_id: String(recipeId) } and the legacy
\* POST /saved { recipe } record.
SaveKey(recipe) == ToStr(SaveRecipeId(SaveArg(recipe)))

\* Mutant of UnsaveKey: the path is built from the raw payload's id field.
UnsaveKeyRawId(recipe) == ToStr(Field(recipe.raw, "id"))

\* The key of DELETE /favorites/${encodeURIComponent(String(id))}
UnsaveKey(recipe) == ToStr(recipe.id)

\* A click on the Save/Unsave button of recipe: toggleSave up to its first
\* await.  apiSaveRecipe rejects at once, without a request, when !recipeId.
ToggleStart(recipe) ==
  LET id == recipe.id
      unsave == CurrentlySaved(id)
  IN /\ recipe \in Toggleable
     /\ ~IsNullish(id)
     /\ CanToggle(id)
     /\ IF ~unsave /\ MissingId(SaveRecipeId(SaveArg(recipe)))
        THEN /\ savedStatus' = SurfaceError(savedStatus, toErrorMessage(Error(MissingIdMsg)))
             /\ saveBusyIds' = RemoveBusy(saveBusyIds \cup {id}, id, TRUE)
             /\ last' = Failed(LastSaved("SaveRefused", id, unsave, FALSE, FALSE), Error(MissingIdMsg))
             /\ UNCHANGED toggleOps
        ELSE /\ InFlight < MaxInFlight
             /\ saveBusyIds' = saveBusyIds \cup {id}
             /\ toggleOps' = Append(toggleOps,
                   [id |-> id, recipe |-> recipe, unsave |-> unsave, phase |-> "mutate"]
                   @@ NewOp(IF unsave THEN "unsave" ELSE "save"))
             /\ last' = LastSaved("ToggleStart", id, unsave, TRUE, FALSE)
             /\ UNCHANGED savedStatus
     /\ UNCHANGED <<favorites, health, healthOp, saved, reloadOps>>
     /\ UNCHANGED outsideSaved

\* The backend answers the save or unsave request in flight of toggle i: it
\* records or removes the favorite, or refuses.
ToggleServe(i, ok) ==
  LET op == toggleOps[i]
  IN /\ op.phase = "mutate"
     /\ ~op.served
     /\ favorites' = IF ~ok THEN favorites
                     ELSE IF op.unsave THEN favorites \ {UnsaveKey(op.recipe)}
                     ELSE favorites \cup {SaveKey(op.recipe)}
     /\ toggleOps' = [toggleOps EXCEPT
                        ![i].served = TRUE,
                        ![i].out = IF ok THEN Resolved(EmptyPayload)
                                   ELSE Rejected(Error(HttpErrorMsg))]
     /\ last' = LastStep("ToggleServe")
     /\ UNCHANGED <<health, healthOp, saved, savedStatus, saveBusyIds, reloadOps>>
     /\ UNCHANGED outsideSaved

\* The save or unsave request in flight of toggle i settles: the chain issues
\* its alternate request; or the mutation succeeded and toggleSave calls
\* reloadSaved(); or it failed and toggleSave runs its catch and finally.
ToggleSettle(i, out) ==
  LET op == toggleOps[i]
      step == ApiStep(op.call, out)
  IN /\ op.phase = "mutate"
     /\ out \in Arrivals(op)
     /\ IF ~step.done
        THEN /\ toggleOps' = [toggleOps EXCEPT ![i] = NextRequest(op, step.call)]
             /\ last' = LastStep("MutationFallback")
             /\ UNCHANGED <<savedStatus, saveBusyIds, reloadOps>>
        ELSE IF step.out.ok
        THEN /\ toggleOps' = [toggleOps EXCEPT ![i].phase = "reload", ![i].served = FALSE,
                                               ![i].out = Rejected(NoError)]
             /\ savedStatus' = LoadingStatus
             /\ reloadOps' = ReloadStarted(reloadOps, op.id)
             /\ last' = LastSaved("MutationOk", op.id, op.unsave, TRUE, FALSE)
             /\ UNCHANGED saveBusyIds
        ELSE /\ toggleOps' = RemoveAt(toggleOps, i)
             /\ savedStatus' = SurfaceError(savedStatus, toErrorMessage(step.out.err))
             /\ saveBusyIds' = RemoveBusy(saveBusyIds, op.id, TRUE)
             /\ last' = Failed(LastSaved("MutationFailed", op.id, op.unsave, FALSE, FALSE), step.out.err)
             /\ UNCHANGED reloadOps
     /\ UNCHANGED <<favorites, health, healthOp, saved>>
     /\ UNCHANGED outsideSaved

-----------------------------------------------------------------------------
(* openRecipe, closeRecipe: App.js:277-300 *)

DetailIdle == [loading |-> FALSE, error |-> ""]

DetailLoading == [loading |-> TRUE, error |-> ""]

MissingDetailIdMsg == "Recipe is missing an id."

\* GET /recipes/{id} answers with the recipe, or with an object that carries
\* no id where normalizeRecipe looks for one, or fails.
DetailOutcomes(id) ==
  {Resolved(Catalogue[i]) : i \in {j \in 1..Len(Catalogue) : normalizeRecipe(Catalogue[j]).id = id}}
  \cup {Resolved(RecipeNoId)} \cup {Rejected(e) : e \in AppErrors}

\* catch: "keep card data and show error": selected is not written.
KeepCard(sel) == sel

\* A click on a card: openRecipe(recipe) up to its await.
OpenRecipe(recipe) ==
  /\ recipe \in Cards
  /\ selected' = <<recipe>>
  /\ IF IsNullish(recipe.id)
     THEN /\ selectedStatus' = [loading |-> FALSE, error |-> MissingDetailIdMsg]
          /\ UNCHANGED detailOps
     ELSE /\ Len(detailOps) < MaxInFlight
          /\ selectedStatus' = DetailLoading
          /\ detailOps' = Append(detailOps, [id |-> recipe.id, call |-> NewCall("getById")])
  /\ last' = LastSaved("OpenRecipe", recipe.id, FALSE, TRUE, FALSE)
  /\ UNCHANGED outsideDetail

\* apiGetRecipeById of openRecipe call i settles.  Nothing tells a call that
\* the modal was closed or reopened meanwhile.
DetailSettle(i, out) ==
  LET op == detailOps[i]
      step == ApiStep(op.call, out)
  IN /\ detailOps' = RemoveAt(detailOps, i)
     /\ IF step.out.ok
        THEN /\ selected' = <<normalizeRecipe(step.out.data)>>
             /\ selectedStatus' = DetailIdle
             /\ last' = LastSaved("DetailSettle", op.id, FALSE, TRUE, FALSE)
        ELSE /\ selected' = KeepCard(selected)
             /\ selectedStatus' = [loading |-> FALSE, error |-> toErrorMessage(step.out.err)]
             /\ last' = Failed(LastSaved("DetailSettle", op.id, FALSE, FALSE, FALSE),
                               step.out.err)
     /\ UNCHANGED outsideDetail

\* The modal's close button
CloseRecipe ==
  /\ selected # <<>>
  /\ selected' = <<>>
  /\ selectedStatus' = DetailIdle
  /\ last' = LastStep("CloseRecipe")
  /\ UNCHANGED detailOps
  /\ UNCHANGED outsideDetail

-----------------------------------------------------------------------------
(* The init effect: App.js:202-223 *)

\* Mutant of InitReload: reloadSaved() is called inside the try block.
InitReloadIfHealthy(ops, ok) == IF ok THEN ReloadStarted(ops, "init") ELSE ops

\* reloadSaved() after the try/catch of init(), ok being the health check's
\* outcome: "Load it even if health check fails"
InitReload(ops, ok) == ReloadStarted(ops, "init")

\* apiGetHealth settles: setHealth, then reloadSaved() whatever the outcome.
HealthSettle(out) ==
  /\ healthOp.active
  /\ InFlight < MaxInFlight
  /\ health' = IF out.ok THEN [ok |-> TRUE, error |-> ""]
               ELSE [ok |-> FALSE, error |-> toErrorMessage(out.err)]
  /\ healthOp' = [healthOp EXCEPT !.active = FALSE]
  /\ savedStatus' = LoadingStatus
  /\ reloadOps' = InitReload(reloadOps, out.ok)
  /\ last' = Failed(LastSaved("HealthSettle", "init", FALSE, out.ok, FALSE), out.err)
  /\ UNCHANGED <<favorites, saved, saveBusyIds, toggleOps>>
  /\ UNCHANGED outsideSaved

-----------------------------------------------------------------------------
(* An API function of api/client.js called on its own, its requests taken   *)
(* step by step: client.js:76-112 under client.js:115-247                   *)

ApiFns ==
  {"health", "getById", "search", "getSaved", "save", "unsave",
   "register", "login", "getMe", "logout"}

\* The item setItem stores for a token
ItemValue(v) ==
  CASE v = "s:t1" -> "t1"
    [] v = "s:t0" -> "t0"
    [] OTHER -> ""

\* getAccessToken(): window.localStorage.getItem(TOKEN_STORAGE_KEY) || ''
getAccessToken == stored

\* setAccessToken(token): removeItem for a falsy token, setItem otherwise; an
\* exception of the storage is ignored.  The value is the item afterwards.
setAccessToken(v) ==
  IF Falsy(v) THEN ""
  ELSE IF storage = "full" THEN stored
  ELSE ItemValue(v)

\* The response of /auth/register and /auth/login
AuthPayload(token) == [access_token |-> token]

\* Mutant of TokenAfter: the token is stored whenever the field is present.
TokenAfterPresent(call, out) ==
  IF call.fn \in {"register", "login"} /\ out.ok
     /\ Field(out.data, "access_token") # Undefined
  THEN ItemValue(Field(out.data, "access_token"))
  ELSE stored

\* if (data?.access_token) setAccessToken(data.access_token), after the awaited
\* request of apiRegister or apiLogin has resolved
TokenAfter(call, out) ==
  IF call.fn \in {"register", "login"} /\ out.ok
     /\ ~Falsy(Field(out.data, "access_token"))
  THEN setAccessToken(Field(out.data, "access_token"))
  ELSE stored

Chains == {"search", "getSaved", "save", "unsave"}

\* Recipes whose id is 0 and the empty string: they pass .filter((r) => r.id != null)
RecipeZero == Raw("n:0", Undefined, Undefined, Undefined)

RecipeBlank == Raw(Undefined, Undefined, "s:", Undefined)

ApiSaveArgs ==
  {SaveArg(normalizeRecipe(r)) : r \in {RecipeA, RecipeNoId, RecipeZero, RecipeBlank}}

Responses ==
  {[ok |-> TRUE, status |-> "200", statusText |-> "OK"],
   [ok |-> FALSE, status |-> "500", statusText |-> "Internal Server Error"],
   [ok |-> FALSE, status |-> "404", statusText |-> "Not Found"]}

ErrorBodies ==
  {ErrorBody(TRUE, TimeoutMsg, "", "", ""),
   ErrorBody(FALSE, "", "boom", "ignored", "{\"detail\":\"boom\",\"message\":\"ignored\"}"),
   ErrorBody(FALSE, "", "", "bad", "{\"message\":\"bad\"}"),
   ErrorBody(FALSE, "", "", "", "{}")}

NoErrorBody == ErrorBody(FALSE, "", "", "", "")

\* A response body: JSON the content type announces but that does not parse
\* (malformed), or the payload a 2xx response carries (data), or the error
\* body of a non-2xx response (errBody).
Body(malformed, data, errBody) == [malformed |-> malformed, data |-> data, errBody |-> errBody]

OkPayloads(fn) ==
  CASE fn = "search" -> {ResultsPayload(<<RecipeB>>), ArrayPayload(<<RecipeA>>)}
    [] fn = "getSaved" ->
         {ItemsPayload(<<Item(RecipeB)>>), ItemsPayload(<<Item(RecipeB), NullItem>>),
          SavedPayload(<<RecipeB>>)}
    [] fn \in {"register", "login"} ->
         {AuthPayload("s:t1"), AuthPayload("s:"), EmptyPayload}
    [] OTHER -> {EmptyPayload}

Bodies(fn, res) ==
  {Body(TRUE, EmptyPayload, NoErrorBody)} \cup
  (IF res.ok THEN {Body(FALSE, p, NoErrorBody) : p \in OkPayloads(fn)}
   ELSE {Body(FALSE, EmptyPayload, b) : b \in ErrorBodies})

\* const payload = await parseJsonOrText(res); if (!res.ok) throw ...; return payload
\* with every exception passing through the catch block.
RequestOutcome(res, body) ==
  IF body.malformed THEN Rejected(NormalizeError(SyntaxError))
  ELSE IF ~res.ok THEN Rejected(NormalizeError(HttpError(res, body.errBody)))
  ELSE Resolved(body.data)

NoBody == Body(FALSE, EmptyPayload, NoErrorBody)

\* history: how the request in flight ended; arrived: by its body having been
\* read (body), its status line being res
Logged(out, timedOut, arrived, body) ==
  [path |-> req.path, out |-> out, timedOut |-> timedOut, arrived |-> arrived,
   res |-> req.res, body |-> body]

\* The function is called: apiSaveRecipe refuses a recipe without an id before
\* any request; every other call issues its preferred request.
ApiCall(fn, arg) ==
  /\ api.phase = "idle"
  /\ reqLog' = <<>>
  /\ stored' = IF fn = "logout" THEN setAccessToken("s:") ELSE stored
  /\ IF fn = "save" /\ MissingId(SaveRecipeId(arg))
     THEN /\ api' = [phase |-> "done", call |-> NewCall(fn),
                     out |-> Rejected(Error(MissingIdMsg)), was |-> stored,
                     arg |-> <<arg>>]
          /\ req' = NoRequest
     ELSE /\ api' = [phase |-> "awaiting", call |-> NewCall(fn), out |-> Rejected(NoError),
                     was |-> stored, arg |-> IF fn = "save" THEN <<arg>> ELSE <<>>]
          /\ req' = StartRequest(NewCall(fn), stored')
  /\ UNCHANGED storage
  /\ UNCHANGED outsideApi

\* request() settles with out: finally { cleanup() }, then the calling chain
\* returns, throws, or issues its alternate request.
Conclude(out, entry) ==
  LET step == ApiStep(api.call, out) IN
    /\ reqLog' = Append(reqLog, entry)
    /\ IF step.done
       THEN /\ api' = [phase |-> "done", call |-> step.call, out |-> step.out,
                       was |-> api.was, arg |-> api.arg]
            /\ req' = [req EXCEPT !.phase = "none", !.timer = "cleared"]
            /\ stored' = TokenAfter(step.call, step.out)
       ELSE /\ api' = [api EXCEPT !.call = step.call]
            /\ req' = StartRequest(step.call, getAccessToken)
            /\ UNCHANGED stored
    /\ UNCHANGED storage
    /\ UNCHANGED outsideApi

Pending == req.phase \in {"headers", "body"}

\* fetch() or the reading of the body rejects: the network failed.
NetFail ==
  /\ Pending
  /\ Conclude(Rejected(NormalizeError(NetworkError)),
              Logged(Rejected(NormalizeError(NetworkError)), FALSE, FALSE, NoBody))

\* await fetch(...) resolves with the response's status line and headers.
HeadersArrive(res) ==
  /\ req.phase = "headers"
  /\ req' = [req EXCEPT !.phase = "body", !.res = res]
  /\ UNCHANGED <<api, reqLog, stored, storage>>
  /\ UNCHANGED outsideApi

\* await parseJsonOrText(res) settles.
BodyArrives(body) ==
  /\ req.phase = "body"
  /\ Conclude(RequestOutcome(req.res, body),
              Logged(RequestOutcome(req.res, body), FALSE, TRUE, body))

\* makeAbortSignal's timer fires: controller.abort() rejects the pending
\* fetch or body read with an AbortError.
TimerFires ==
  /\ Pending
  /\ req.timer = "armed"
  /\ Conclude(Rejected(NormalizeError(AbortError)),
              Logged(Rejected(NormalizeError(AbortError)), TRUE, FALSE, NoBody))

\* The caller has taken the result.
ApiReturn ==
  /\ api.phase = "done"
  /\ api' = IdleApi
  /\ req' = NoRequest
  /\ reqLog' = <<>>
  /\ UNCHANGED <<stored, storage>>
  /\ UNCHANGED outsideApi

-----------------------------------------------------------------------------
(* The state after the first render and its effects *)

InitSearchRegion ==
  /\ query = <<>>
  /\ debouncedQuery = <<>>
  /\ debounceTimers = Arm({}, <<>>)
  /\ searchOps = <<>>
  /\ searchResults = <<>>
  /\ searchStatus = IdleStatus
  /\ stable = 0
  /\ skipped = FALSE
  /\ resultsCurrent = TRUE
  /\ statusCurrent = TRUE

InitSavedRegion ==
  /\ favorites = InitialFavorites
  /\ health = [ok |-> TRUE, error |-> ""]
  /\ healthOp = [active |-> TRUE, call |-> NewCall("health")]
  /\ saved = <<>>
  /\ savedStatus = IdleStatus
  /\ saveBusyIds = {}
  /\ reloadOps = <<>>
  /\ toggleOps = <<>>

InitDetailRegion ==
  /\ selected = <<>>
  /\ selectedStatus = DetailIdle
  /\ detailOps = <<>>

InitPureRegion ==
  /\ rawIn = NoRaw
  /\ normOut = <<>>

InitApiRegion ==
  /\ api = IdleApi
  /\ req = NoRequest
  /\ reqLog = <<>>
  /\ stored = ""
  /\ storage = "ok"

Init ==
  /\ InitSearchRegion
  /\ InitSavedRegion
  /\ InitDetailRegion
  /\ InitApiRegion
  /\ InitPureRegion
  /\ last = Last("Mount", TRUE, TRUE, 0, <<>>)

NextSearch ==
  \/ \E v \in Queries : SetQuery(v)
  \/ SearchButton
  \/ Tick
  \/ \E t \in debounceTimers : DebounceFire(t)
  \/ \E i \in 1..Len(searchOps) : \E out \in SearchOutcomes : SearchSettle(i, out)

SpecSearch == Init /\ [][NextSearch]_vars

\* The request of the oldest search effect in flight settles.
SearchSettles ==
  \E out \in SearchOutcomes : searchOps # <<>> /\ SearchSettle(1, out)

\* Every HTTP request eventually settles: the oldest one in flight does, by
\* its answer, its failure or the abort timer of makeAbortSignal.
SearchRequestsSettle == WF_vars(SearchSettles)

SpecSearchLive == Init /\ [][NextSearch]_vars /\ SearchRequestsSettle

\* The saved region, entered once a search has delivered its results and the
\* init effect's health check has succeeded and called reloadSaved().
InitSaved ==
  /\ query = <<"a">>
  /\ debouncedQuery = <<"a">>
  /\ debounceTimers = {}
  /\ searchOps = <<>>
  /\ searchResults = NormalizeList(<<RecipeA, RecipeNoId, RecipeB>>)
  /\ searchStatus = [loading |-> FALSE, error |-> "", lastUpdated |-> "now"]
  /\ favorites = InitialFavorites
  /\ health = [ok |-> TRUE, error |-> ""]
  /\ healthOp = [active |-> FALSE, call |-> NewCall("health")]
  /\ saved = <<>>
  /\ savedStatus = LoadingStatus
  /\ saveBusyIds = {}
  /\ reloadOps = ReloadStarted(<<>>, "init")
  /\ toggleOps = <<>>
  /\ stable = DebounceTicks
  /\ skipped = FALSE
  /\ resultsCurrent = TRUE
  /\ statusCurrent = TRUE
  /\ InitDetailRegion
  /\ InitApiRegion
  /\ InitPureRegion
  /\ last = LastSaved("HealthSettle", "init", FALSE, TRUE, FALSE)

HealthOutcomes == {Resolved(EmptyPayload)} \cup {Rejected(e) : e \in AppErrors}

NextSaved ==
  \/ ManualReload
  \/ \E i \in 1..Len(reloadOps) : \E ans \in SavedAnswers(reloadOps[i].call.stage) :
        ReloadServe(i, ans)
  \/ \E i \in 1..Len(reloadOps) : \E out \in Arrivals(reloadOps[i]) : ReloadSettle(i, out)
  \/ \E recipe \in Toggleable : ToggleStart(recipe)
  \/ \E i \in 1..Len(toggleOps) : \E ok \in BOOLEAN : ToggleServe(i, ok)
  \/ \E i \in 1..Len(toggleOps) : \E out \in Arrivals(toggleOps[i]) : ToggleSettle(i, out)

SpecSaved == InitSaved /\ [][NextSaved]_vars

ReloadsIdle == reloadOps = <<>> /\ toggleOps = <<>>

\* The ids a Save/Unsave button can carry
ToggleIds == {normalizeRecipe(Catalogue[i]).id : i \in 1..Len(Catalogue)}

\* The save or unsave request of the toggleSave of id settles.
ToggleSettles(id) ==
  \E i \in 1..Len(toggleOps) : \E out \in Arrivals(toggleOps[i]) :
     toggleOps[i].id = id /\ ToggleSettle(i, out)

\* The saved-list request of the reloadSaved() called by owner settles.
ReloadSettles(owner) ==
  \E i \in 1..Len(reloadOps) : \E out \in Arrivals(reloadOps[i]) :
     reloadOps[i].owner = owner /\ ReloadSettle(i, out)

\* Every HTTP request eventually settles: fetch answers or fails, and the
\* timer of makeAbortSignal aborts it after timeoutMs at the latest.
RequestsSettle ==
  \A id \in ToggleIds : WF_vars(ToggleSettles(id)) /\ WF_vars(ReloadSettles(id))

\* The saved region with the toggles running side by side: a Save/Unsave
\* button is clicked while other toggles are at their request but not while
\* the saved list is loading, and "Reload saved" only while nothing is pending.
NextSavedLive ==
  \/ ReloadsIdle /\ ManualReload
  \/ \E i \in 1..Len(reloadOps) : \E ans \in SavedAnswers(reloadOps[i].call.stage) :
        ReloadServe(i, ans)
  \/ \E i \in 1..Len(reloadOps) : \E out \in Arrivals(reloadOps[i]) : ReloadSettle(i, out)
  \/ \E recipe \in Toggleable : reloadOps = <<>> /\ ToggleStart(recipe)
  \/ \E i \in 1..Len(toggleOps) : \E ok \in BOOLEAN : ToggleServe(i, ok)
  \/ \E i \in 1..Len(toggleOps) : \E out \in Arrivals(toggleOps[i]) : ToggleSettle(i, out)

SpecSavedLive == InitSaved /\ [][NextSavedLive]_vars /\ RequestsSettle

NextApi ==
  \/ \E fn \in ApiFns : \E arg \in ApiSaveArgs : ApiCall(fn, arg)
  \/ NetFail
  \/ \E res \in Responses : HeadersArrive(res)
  \/ \E body \in Bodies(api.call.fn, req.res) : BodyArrives(body)
  \/ TimerFires
  \/ ApiReturn

\* The page is loaded with or without a token stored by an earlier session,
\* in a browser whose storage accepts writes or refuses them.
InitApi ==
  /\ InitSearchRegion
  /\ InitSavedRegion
  /\ InitDetailRegion
  /\ InitPureRegion
  /\ api = IdleApi
  /\ req = NoRequest
  /\ reqLog = <<>>
  /\ stored \in {"", "t0"}
  /\ storage \in {"ok", "full"}
  /\ last = Last("Mount", TRUE, TRUE, 0, <<>>)

SpecApi == InitApi /\ [][NextApi]_vars

\* The whole page, the user starting one thing at a time: nothing is typed or
\* clicked while a request or a debounce timer is pending.
Quiet ==
  /\ ~healthOp.active
  /\ debounceTimers = {}
  /\ searchOps = <<>>
  /\ reloadOps = <<>>
  /\ toggleOps = <<>>
  /\ detailOps = <<>>

AppQueries == {<<"a">>, <<" ">>}

NextApp ==
  \/ \E out \in HealthOutcomes : HealthSettle(out)
  \/ \E v \in AppQueries : Quiet /\ SetQuery(v)
  \/ Tick
  \/ \E t \in debounceTimers : DebounceFire(t)
  \/ \E i \in 1..Len(searchOps) : \E out \in SearchOutcomes : SearchSettle(i, out)
  \/ Quiet /\ ManualReload
  \/ \E i \in 1..Len(reloadOps) : \E ans \in SavedAnswers(reloadOps[i].call.stage) :
        ReloadServe(i, ans)
  \/ \E i \in 1..Len(reloadOps) : \E out \in Arrivals(reloadOps[i]) : ReloadSettle(i, out)
  \/ \E recipe \in Toggleable : Quiet /\ ToggleStart(recipe)
  \/ \E i \in 1..Len(toggleOps) : \E ok \in BOOLEAN : ToggleServe(i, ok)
  \/ \E i \in 1..Len(toggleOps) : \E out \in Arrivals(toggleOps[i]) : ToggleSettle(i, out)
  \/ \E recipe \in Cards : Quiet /\ OpenRecipe(recipe)
  \/ \E i \in 1..Len(detailOps) : \E out \in DetailOutcomes(detailOps[i].id) :
        DetailSettle(i, out)
  \/ CloseRecipe

SpecApp == Init /\ [][NextApp]_vars

\* normalizeRecipe on every backend object of RawInputs
InitNormalize ==
  /\ InitSearchRegion
  /\ InitSavedRegion
  /\ InitDetailRegion
  /\ InitApiRegion
  /\ rawIn \in RawInputs
  /\ normOut = <<>>
  /\ last = Last("Mount", TRUE, TRUE, 0, <<>>)

NextNormalize ==
  \/ Normalize
  \/ \E r \in RawInputs : NextRaw(r)

SpecNormalize == InitNormalize /\ [][NextNormalize]_vars

-----------------------------------------------------------------------------
(* Claims about the search region, checked under SpecSearch *)

NewestInFlight == \E i \in 1..Len(searchOps) : searchOps[i].newest

\* C1 as stated: a search response that settles after its effect was
\* superseded changes neither searchResults nor searchStatus, and the
\* displayed results and the status are always those written by the most
\* recently started search effect.
C1_StaleNeverApplied_Original ==
  /\ (last.act = "SearchSettle" /\ ~last.newest) => ~last.wrote
  /\ statusCurrent
  /\ searchResults # <<>> => resultsCurrent

\* C1 amended: a search response that settles after its effect was superseded
\* changes neither searchResults nor searchStatus; the status is always the
\* one written by the most recently started effect, and so are the results
\* once that effect is no longer loading (while it loads, the results of the
\* effect before it stay displayed).
C1_StaleNeverApplied ==
  /\ (last.act = "SearchSettle" /\ ~last.newest) => ~last.wrote
  /\ statusCurrent
  /\ ~searchStatus.loading => resultsCurrent
  /\ searchStatus.loading <=> NewestInFlight

\* A superseded search settles successfully while a newer search is loading.
C1_Witness ==
  /\ last.act = "SearchSettle"
  /\ ~last.newest
  /\ searchStatus.loading
  /\ searchResults # <<>>
  /\ Trim(debouncedQuery) # last.forQ

\* C4: whenever the debounced query is empty or only whitespace, the search
\* effect that ran for it issued no request, the results are empty and the
\* status is loading=false with an empty error.
C4_BlankQueryClears ==
  Trim(debouncedQuery) = <<>> =>
    /\ searchResults = <<>>
    /\ ~searchStatus.loading
    /\ searchStatus.error = ""
    /\ ~NewestInFlight
    /\ last.act = "SearchEffect" => last.issued = 0

\* The effect has just run for a whitespace-only query, after a search whose
\* request is still in flight.
C4_Witness ==
  /\ last.act = "SearchEffect"
  /\ debouncedQuery # <<>>
  /\ Trim(debouncedQuery) = <<>>
  /\ searchOps # <<>>

\* C10: a search request is issued only for the value the input has held for
\* the full debounce delay; every change of the input cancels the pending
\* timer and restarts it, so at most one timer is pending, it is for the
\* current input and it is due exactly DebounceTicks after the last change.
C10_DebouncedSearch ==
  /\ (last.act = "SearchEffect" /\ last.issued = 1) =>
        /\ stable = DebounceTicks
        /\ last.forQ = Trim(query)
        /\ debouncedQuery = query
  /\ Cardinality(debounceTimers) <= 1
  /\ \A t \in debounceTimers : t.value = query /\ t.left + stable = DebounceTicks

\* A search is issued for the second value typed, the first one having been
\* replaced before its delay elapsed while an earlier search is in flight.
C10_Witness ==
  /\ last.act = "SearchEffect"
  /\ last.issued = 1
  /\ skipped
  /\ Len(searchOps) = 2
  /\ searchOps[1].q # searchOps[2].q

\* C25 as stated: searchStatus never has loading = true together with an
\* error, and, the requests settling, every state with loading = true is
\* followed by one with loading = false.
C25_LoadingEnds_Original ==
  /\ [](~(searchStatus.loading /\ searchStatus.error # ""))
  /\ searchStatus.loading ~> ~searchStatus.loading

\* C25 amended: searchStatus never has loading = true together with an error,
\* and, the requests settling and the search effect being re-run for a new
\* debounced query only finitely often, every state with loading = true is
\* followed by one with loading = false.  Checked under SpecSearchLive.
C25_LoadingEnds ==
  /\ [](~(searchStatus.loading /\ searchStatus.error # ""))
  /\ <>[](last.act # "SearchEffect") => (searchStatus.loading ~> ~searchStatus.loading)

\* The search that superseded one in flight has failed, the superseded
\* request still pending: loading is false again and the error is shown.
C25_Witness ==
  /\ last.act = "SearchSettle" /\ last.newest /\ last.wrote
  /\ ~searchStatus.loading /\ searchStatus.error # ""
  /\ searchOps # <<>> /\ searchOps[1].cancelled

-----------------------------------------------------------------------------
(* Claims about the saved region, checked under SpecSaved *)

MutationSettled == {"MutationOk", "MutationFailed"}

\* C2 as stated: whenever the save or unsave of a toggleSave settles, with
\* success or with failure, a saved-list reload request is issued; and the
\* mutation's error does not replace what the reload reports in
\* savedStatus.
C2_ReloadUnconditional_Original ==
  [][/\ last'.act \in MutationSettled =>
          /\ Len(reloadOps') = Len(reloadOps) + 1
          /\ reloadOps'[Len(reloadOps')].owner = last'.id
     /\ last'.act = "MutationFailed" => savedStatus' = savedStatus]_vars

\* C2 amended: when the save or unsave of a toggleSave succeeds, a saved-list
\* reload request is issued in the same step; when it fails, no reload is
\* issued and the mutation's error is written to savedStatus.error, the slot
\* where a failed reload writes its own error (reloadSaved catches it itself),
\* the saved list being left as it is.
C2_ReloadAfterSuccess ==
  [][/\ last'.act = "MutationOk" =>
          /\ Len(reloadOps') = Len(reloadOps) + 1
          /\ reloadOps'[Len(reloadOps')].owner = last'.id
          /\ reloadOps'[Len(reloadOps')].call = NewCall("getSaved")
          /\ savedStatus' = LoadingStatus
     /\ last'.act = "MutationFailed" =>
          /\ reloadOps' = reloadOps
          /\ savedStatus' = [savedStatus EXCEPT !.error = last'.msg]
          /\ saved' = saved
     /\ (last'.act \in {"ToggleDone", "ReloadSettle"} /\ ~last'.ok) =>
          /\ savedStatus'.error = last'.msg
          /\ saved' = <<>>]_vars

\* A save has failed and its error is displayed where a reload's would be,
\* no reload being in flight for it.
C2_Witness ==
  /\ last.act = "MutationFailed"
  /\ ~last.unsave
  /\ savedStatus.error = last.msg
  /\ \A i \in 1..Len(reloadOps) : reloadOps[i].owner # last.id

\* C5: when a toggleSave of a recipe that was not in the saved set has
\* finished, its save and the reload after it having succeeded, the reload's
\* response listing the backend's favorites where reloadSaved reads them,
\* savedIds contains the recipe's id.
C5_SavedAfterSave ==
  (last.act = "ToggleDone" /\ ~last.unsave /\ last.ok /\ last.readable) =>
    last.id \in savedIds

\* The toggleSave of RecipeA, unsaved before, has finished with both requests
\* successful.
C5_Witness ==
  /\ last.act = "ToggleDone"
  /\ ~last.unsave
  /\ last.ok
  /\ last.readable
  /\ last.id = "n:1"
  /\ "s:1" \in favorites
  /\ last.id \in savedIds

\* C6: when a toggleSave of a recipe that was in the saved set has finished,
\* its unsave and the reload after it having succeeded, savedIds does not
\* contain the recipe's id.
C6_UnsavedAfterUnsave ==
  (last.act = "ToggleDone" /\ last.unsave /\ last.ok) => last.id \notin savedIds

\* The toggleSave of the saved RecipeB has finished with both requests
\* successful, RecipeA staying saved.
C6_Witness ==
  /\ last.act = "ToggleDone"
  /\ last.unsave
  /\ last.ok
  /\ last.readable
  /\ last.id = "s:2"
  /\ savedIds = {"n:1"}

\* C9: an id is in saveBusyIds exactly when a toggleSave for it has started
\* and not finished; no two toggles for one id overlap, the button being
\* disabled while its id is busy.
C9_BusyIffInFlight ==
  /\ \A id \in {"n:1", "s:2"} :
       id \in saveBusyIds <=> \E i \in 1..Len(toggleOps) : toggleOps[i].id = id
  /\ \A i, j \in 1..Len(toggleOps) : toggleOps[i].id = toggleOps[j].id => i = j
  /\ saveBusyIds \subseteq {"n:1", "s:2"}

\* One of two overlapping toggles has just finished, the other is in flight.
C9_Witness ==
  /\ last.act \in {"ToggleDone", "MutationFailed"}
  /\ Len(toggleOps) = 1
  /\ saveBusyIds = {toggleOps[1].id}
  /\ last.id # toggleOps[1].id

\* C21: when saved-list reloads overlap, once all of them have settled the
\* saved list and savedStatus reflect the response of the most recently issued
\* reload: the reload whose settling leaves none in flight, and so wrote last,
\* was not overtaken by a reload issued after it.
C21_NewestReloadWins ==
  [][(reloadOps # <<>> /\ reloadOps' = <<>>) => ~reloadOps[1].overtaken]_vars

\* C22: savedStatus.loading is true whenever a saved-list reload is in flight,
\* and false whenever none is.
C22_LoadingIffReloading == savedStatus.loading <=> reloadOps # <<>>

\* C19: every id added to saveBusyIds is eventually removed, the requests
\* settling: whenever an id is in the busy set it is later out of it, and the
\* busy set is empty whenever no toggleSave is in flight.  Checked under
\* SpecSavedLive.
C19_BusyEventuallyRemoved ==
  /\ [](toggleOps = <<>> => saveBusyIds = {})
  /\ \A id \in ToggleIds : (id \in saveBusyIds) ~> (id \notin saveBusyIds)

C19_Witness ==
  /\ last.act = "ToggleDone" /\ ~last.ok
  /\ last.id \notin saveBusyIds
  /\ saveBusyIds # {}

-----------------------------------------------------------------------------
(* Claims about api/client.js, checked under SpecApi *)

Succeeded(i) == reqLog[i].out.ok

\* The preferred /favorites response of apiGetSavedRecipes whose items cannot
\* be unwrapped: the exception of it.recipe is caught like a failed request.
Unusable(i) ==
  /\ api.call.fn = "getSaved"
  /\ i = 1
  /\ Succeeded(i)
  /\ "items" \in reqLog[i].out.data.has
  /\ \E j \in 1..Len(reqLog[i].out.data.items) : reqLog[i].out.data.items[j].isNull

\* The call's result is what request i resolved with ({ items: [{ recipe }] }
\* delivered as the array of its recipes).
ResultOf(i) ==
  \/ api.out = reqLog[i].out
  \/ /\ api.call.fn = "getSaved"
     /\ "items" \in reqLog[i].out.data.has
     /\ api.out.ok
     /\ api.out.data.isArray
     /\ Len(api.out.data.arr) = Len(reqLog[i].out.data.items)
     /\ \A j \in 1..Len(api.out.data.arr) :
          api.out.data.arr[j] = reqLog[i].out.data.items[j].recipe

ChainDone == api.phase = "done" /\ api.call.fn \in Chains /\ Len(reqLog) >= 1

\* C3 as stated: every chain returns the result of the first endpoint that
\* succeeds and, when both endpoints fail, throws the preferred endpoint's
\* (the original) error.
C3_FallbackOriginalError_Original ==
  ChainDone =>
    IF \E i \in 1..Len(reqLog) : Succeeded(i)
    THEN LET k == CHOOSE i \in 1..Len(reqLog) :
                    Succeeded(i) /\ \A j \in 1..(i - 1) : ~Succeeded(j)
         IN Len(reqLog) = k /\ ResultOf(k)
    ELSE Len(reqLog) = 2 /\ ~api.out.ok /\ api.out.err = reqLog[1].out.err

\* C3: every chain returns the result of the first endpoint whose response is
\* usable (for apiGetSavedRecipes a preferred response whose items cannot be
\* unwrapped counts as failed); when both fail, apiSaveRecipe throws the
\* preferred endpoint's error and the other three chains throw the
\* alternate's.
C3_FallbackError ==
  ChainDone =>
    IF \E i \in 1..Len(reqLog) : Succeeded(i) /\ ~Unusable(i)
    THEN LET k == CHOOSE i \in 1..Len(reqLog) :
                    /\ Succeeded(i) /\ ~Unusable(i)
                    /\ \A j \in 1..(i - 1) : ~Succeeded(j) \/ Unusable(j)
         IN Len(reqLog) = k /\ ResultOf(k)
    ELSE /\ Len(reqLog) = 2
         /\ ~api.out.ok
         /\ api.out.err = reqLog[IF api.call.fn = "save" THEN 1 ELSE 2].out.err

\* apiSaveRecipe has failed at both endpoints, with different errors.
C3_Witness ==
  /\ ChainDone
  /\ api.call.fn = "save"
  /\ Len(reqLog) = 2
  /\ ~Succeeded(1) /\ ~Succeeded(2)
  /\ reqLog[1].out.err # reqLog[2].out.err

\* C7: a request() rejects with exactly 'Request timed out. Please try
\* again.' when its timer aborted it, and with no other request outcome.
C7_TimeoutMessage ==
  \A i \in 1..Len(reqLog) :
    /\ reqLog[i].timedOut => reqLog[i].out = Rejected(Error(TimeoutMsg))
    /\ ~reqLog[i].timedOut =>
         reqLog[i].out.ok \/ reqLog[i].out.err.message # TimeoutMsg

\* A request was aborted by its timer, after another of the same call failed
\* with an HTTP error whose server message is the timeout text.
C7_Witness ==
  /\ Len(reqLog) = 2
  /\ ~reqLog[1].timedOut
  /\ ~reqLog[1].out.ok
  /\ reqLog[1].out.err.message =
       "HTTP 500 Internal Server Error: " \o TimeoutMsg
  /\ reqLog[2].timedOut

\* The requests the call has issued so far, the one in flight included
Issued == Len(reqLog) + (IF Pending THEN 1 ELSE 0)

IssuedPath(i) == IF i <= Len(reqLog) THEN reqLog[i].path ELSE req.path

\* C11: in every fallback chain the alternate endpoint is requested only
\* after the preferred endpoint's request has failed, never when it
\* succeeded; one call issues at most two requests and none twice.
C11_AlternateOnlyAfterFailure ==
  api.call.fn \in Chains =>
    /\ Issued <= 2
    /\ Issued = 2 => /\ IssuedPath(1) # IssuedPath(2)
                     /\ ~Succeeded(1)

\* C14: once apiLogout has returned, the stored access token is empty, and
\* apiLogout has resolved, whatever the outcome of POST /auth/logout.
C14_LogoutClearsAndResolves ==
  (api.phase = "done" /\ api.call.fn = "logout") =>
    /\ api.out.ok
    /\ stored = ""
    /\ Len(reqLog) = 1
    /\ reqLog[1].path = "/auth/logout"

\* apiLogout, called with a token stored, has returned after its request
\* timed out.
C14_Witness ==
  /\ api.phase = "done"
  /\ api.call.fn = "logout"
  /\ api.was = "t0"
  /\ reqLog[1].timedOut
  /\ api.out = Resolved(LoggedOut)
  /\ stored = ""

\* apiRegister or apiLogin settles in this step.
LoginSettles ==
  /\ api.phase = "awaiting"
  /\ api'.phase = "done"
  /\ api'.call.fn \in {"register", "login"}

\* apiLogout is called in this step.
LogoutCalled == api.phase = "idle" /\ api'.call.fn = "logout" /\ api'.phase # "idle"

AccessToken == Field(api'.out.data, "access_token")

\* C15 as stated: apiLogin and apiRegister change the stored token only on a
\* successful response that carries an access_token, and the stored token
\* then equals that value; no other function but apiLogout changes it.
C15_TokenOnlyOnLogin_Original ==
  [][/\ (LoginSettles /\ api'.out.ok /\ AccessToken # Undefined) =>
          stored' = ItemValue(AccessToken)
     /\ (LoginSettles /\ ~(api'.out.ok /\ AccessToken # Undefined)) => stored' = stored
     /\ (~LoginSettles /\ ~LogoutCalled) => stored' = stored]_vars

\* C15 amended: apiLogin and apiRegister change the stored token only on a
\* successful response that carries a non-empty access_token, and the stored
\* token then equals that value unless the browser's storage refuses the
\* write, which setAccessToken ignores, leaving the token as it was; in every
\* other case, and in every other function but apiLogout, it is unchanged.
C15_TokenOnlyOnLogin ==
  [][/\ (LoginSettles /\ api'.out.ok /\ AccessToken \notin {Undefined, Null, "s:"}) =>
          stored' = IF storage = "full" THEN stored ELSE ItemValue(AccessToken)
     /\ (LoginSettles /\ ~(api'.out.ok /\ AccessToken \notin {Undefined, Null, "s:"})) =>
          stored' = stored
     /\ (~LoginSettles /\ ~LogoutCalled) => stored' = stored]_vars

\* apiLogin or apiRegister, called with the token t0 stored, has returned a
\* response with the token t1, which is now the stored one.
C15_Witness ==
  /\ api.phase = "done"
  /\ api.call.fn \in {"register", "login"}
  /\ api.was = "t0"
  /\ api.out = Resolved(AuthPayload("s:t1"))
  /\ stored = "t1"

\* C16: a request in flight carries the Authorization header "Bearer <token>"
\* with the stored token if the stored token is non-empty, and no
\* Authorization header otherwise; the token is the one stored when the
\* request was issued, no step changing it while a request is in flight.
C16_BearerIffToken ==
  /\ Pending => req.auth = (IF stored = "" THEN "" ELSE "Bearer " \o stored)
  /\ Pending => api.phase = "awaiting"

\* The POST /auth/logout of an apiLogout called with a token stored is in
\* flight, without the header.
C16_Witness ==
  /\ Pending
  /\ api.call.fn = "logout"
  /\ api.was = "t0"
  /\ req.path = "/auth/logout"
  /\ req.auth = ""

\* The messages that embed the status line of res and what the server sent
\* in body
StatusMessages(res, body) ==
  {"HTTP " \o res.status \o " " \o res.statusText \o ": " \o t :
     t \in {body.errBody.text, body.errBody.detail, body.errBody.message,
            body.errBody.json}}

\* C17: of a response that has arrived, request() resolves with the parsed
\* payload when the status is 2xx (and the body parses), and for every
\* non-2xx response it rejects with an error whose message embeds the HTTP
\* status and the server's message; it never resolves for a non-2xx response.
C17_ResolvesIff2xx ==
  \A i \in 1..Len(reqLog) :
    reqLog[i].arrived =>
      /\ reqLog[i].out.ok => reqLog[i].res.ok
      /\ (reqLog[i].res.ok /\ ~reqLog[i].body.malformed) =>
           reqLog[i].out = Resolved(reqLog[i].body.data)
      /\ ~reqLog[i].res.ok =>
           /\ ~reqLog[i].out.ok
           /\ reqLog[i].out.err.message \in StatusMessages(reqLog[i].res, reqLog[i].body)

\* apiSaveRecipe has thrown before its first request().
RefusedUnrequested ==
  api.out = Rejected(Error(MissingIdMsg)) /\ reqLog = <<>> /\ req = NoRequest

\* C23: apiSaveRecipe rejects with 'Cannot save recipe: missing recipe id.'
\* without issuing a request if and only if the recipe has no canonical id,
\* none of id, recipe_id, _id, uuid being non-null; a recipe whose id is 0 or
\* the empty string is saved through a request.
C23_RefusedIffNoId ==
  (api.phase = "done" /\ api.call.fn = "save") =>
     (RefusedUnrequested <=> IsNullish(SaveRecipeId(api.arg[1])))

-----------------------------------------------------------------------------
(* Claims about the page as a whole, checked under SpecApp *)

searchSlots == <<searchResults, searchStatus>>

savedSlots == <<saved, savedStatus>>

detailSlots == <<selected, selectedStatus>>

\* C8 as stated: a failure in one of the four regions (search, saved-list
\* reload, recipe detail, save toggle) leaves the data and the error slots of
\* the other three unchanged; a failed save or unsave does not write the
\* saved-list region's savedStatus.
C8_OwnErrorSlot_Original ==
  [][/\ last'.act = "SearchSettle" => UNCHANGED <<savedSlots, detailSlots>>
     /\ (last'.act \in {"ReloadSettle", "ToggleDone"} /\ ~last'.ok) =>
          UNCHANGED <<searchSlots, detailSlots>>
     /\ (last'.act = "DetailSettle" /\ ~last'.ok) => UNCHANGED <<searchSlots, savedSlots>>
     /\ last'.act \in {"MutationFailed", "SaveRefused"} =>
          UNCHANGED <<searchSlots, detailSlots, savedSlots>>]_vars

\* C8 amended: search, saved-list reload and recipe detail each write their
\* error only to their own status; a failed save or unsave has no slot of its
\* own: it writes its message to the error field of the saved-list region's
\* savedStatus, leaving that status's other fields, the saved list and the
\* search and detail regions unchanged.
C8_OwnErrorSlot ==
  [][/\ last'.act = "SearchSettle" => UNCHANGED <<savedSlots, detailSlots>>
     /\ (last'.act \in {"ReloadSettle", "ToggleDone"} /\ ~last'.ok) =>
          /\ UNCHANGED <<searchSlots, detailSlots>>
          /\ savedStatus'.error = last'.msg
     /\ (last'.act = "DetailSettle" /\ ~last'.ok) =>
          /\ UNCHANGED <<searchSlots, savedSlots, selected>>
          /\ selectedStatus'.error = last'.msg
     /\ last'.act \in {"MutationFailed", "SaveRefused"} =>
          /\ UNCHANGED <<searchSlots, detailSlots, saved>>
          /\ savedStatus'.error = last'.msg
          /\ savedStatus'.loading = savedStatus.loading
          /\ savedStatus'.lastUpdated = savedStatus.lastUpdated]_vars

\* A save has failed with the saved list loaded, search results displayed and
\* the modal open: its message is in savedStatus.error, the time of the last
\* successful reload still beside it.
C8_Witness ==
  /\ last.act = "MutationFailed"
  /\ savedStatus.error = last.msg
  /\ savedStatus.lastUpdated # ""
  /\ saved # <<>>
  /\ searchResults # <<>>
  /\ selected # <<>>

\* C24: when the save or unsave of a toggleSave fails, both endpoints of its
\* chain having failed, the saved list, searchResults, the selected recipe and
\* the search and detail status are unchanged; only the error text of the
\* saved area changes, and the id leaves the busy set.
C24_FailedMutationFrame ==
  [][last'.act = "MutationFailed" =>
       /\ UNCHANGED <<saved, searchResults, selected, searchStatus, selectedStatus>>
       /\ savedStatus' = [loading |-> savedStatus.loading, error |-> last'.msg,
                          lastUpdated |-> savedStatus.lastUpdated]
       /\ last'.msg # ""
       /\ last'.id \in saveBusyIds
       /\ saveBusyIds' = saveBusyIds \ {last'.id}]_vars

\* An unsave has failed with the modal open on a saved recipe.
C24_Witness ==
  /\ last.act = "MutationFailed" /\ last.unsave
  /\ last.id \notin saveBusyIds
  /\ savedStatus = [loading |-> FALSE, error |-> last.msg, lastUpdated |-> "now"]
  /\ selected # <<>> /\ selected[1].id = last.id
  /\ last.id \in savedIds

\* C13: every entry of searchResults and every entry of the saved list has
\* a canonical id that is neither null nor undefined, whatever the shape of
\* the response that carried it.
C13_StoredEntriesHaveId ==
  /\ \A i \in 1..Len(searchResults) : searchResults[i].id \notin {Null, Undefined}
  /\ \A i \in 1..Len(saved) : saved[i].id \notin {Null, Undefined}

\* A search response and a saved-list response, each listing one record with
\* an id and one without, have been stored: one entry each.
C13_Witness ==
  /\ last.act = "ReloadSettle"
  /\ last.ok
  /\ Len(saved) = 1
  /\ Len(searchResults) = 1
  /\ searchResults[1].id = "n:1"
  /\ searchResults[1].raw = RecipeA

\* C18: on startup no saved-list request is issued before the health check
\* has settled, and one is issued when it settles, with success or with
\* failure; a failed health check sets health.ok to false with the error's
\* message.
C18_SavedLoadAfterHealth ==
  /\ healthOp.active => reloadOps = <<>> /\ health = [ok |-> TRUE, error |-> ""]
  /\ last.act = "HealthSettle" =>
       /\ ~healthOp.active
       /\ Len(reloadOps) = 1
       /\ reloadOps[1].owner = "init"
       /\ reloadOps[1].call = NewCall("getSaved")
       /\ ~reloadOps[1].served
       /\ health.ok = last.ok
       /\ health.error = last.msg
       /\ ~last.ok => last.msg # ""

\* The health check has just failed and the saved-list request is in flight.
C18_Witness ==
  /\ last.act = "HealthSettle"
  /\ ~last.ok
  /\ ~health.ok
  /\ health.error = TimeoutMsg
  /\ Len(reloadOps) = 1
  /\ savedStatus.loading

\* The modal shows the recipe with this id.
Showing(id) == selected # <<>> /\ selected[1].id = id

\* C20: a recipe-detail response is applied to the modal only if the recipe it
\* was requested for is still the selected one: a detail request that settles
\* while the modal is closed or shows another recipe leaves selected as it is,
\* and a closed modal is opened by openRecipe alone.
C20_DetailOnlyIfSelected ==
  [][/\ (last'.act = "DetailSettle" /\ ~Showing(last'.id)) => selected' = selected
     /\ (selected = <<>> /\ selected' # <<>>) => last'.act = "OpenRecipe"]_vars

-----------------------------------------------------------------------------
(* Claims about normalizeRecipe, checked under SpecNormalize *)

IdFields == <<"id", "recipe_id", "_id", "uuid">>

Present(k) == rawIn[IdFields[k]] \notin {Null, Undefined}

\* C12: the canonical id normalizeRecipe yields is the value of the first
\* field among id, recipe_id, _id, uuid that is neither null nor undefined,
\* and it is null or undefined only when none of the four fields has one.
C12_CanonicalId ==
  normOut # <<>> =>
    IF \E k \in 1..4 : Present(k)
    THEN \E k \in 1..4 :
           /\ Present(k)
           /\ \A j \in 1..(k - 1) : ~Present(j)
           /\ normOut[1].id = rawIn[IdFields[k]]
    ELSE normOut[1].id \in {Null, Undefined}

\* An object whose id is null and whose recipe_id is the number 0, its other
\* two fields set, has been normalized.
C12_Witness ==
  /\ normOut # <<>>
  /\ rawIn = Raw(Null, "n:0", "n:1", "s:")
  /\ normOut[1].id = "n:0"

====
